---- MODULE Spec2Model ----
(***************************************************************************)
(* Turn orchestration of the chat view (src/components/chat.tsx) and the   *)
(* persistence write endpoint (src/app/api/chat/messages/route.ts).        *)
(*                                                                         *)
(* The Chat component holds the session: the route id, the generated id,   *)
(* the composer input, the hook status.  Each submit issues one request    *)
(* through customFetch: it opens the tool connections, runs the tool-use   *)
(* loop of streamText and, in onFinish, posts the turn and calls cleanup.  *)
(* The callbacks are the ones chat.tsx registers; when the libraries call  *)
(* them (loop end, step error, abort) is the environment of the component. *)
(***************************************************************************)
EXTENDS Integers, Sequences, FiniteSets, TLC

\* ---------------------------------------------------------------- bounds
MaxReq == 2            \* requests issued in one behaviour
MaxToolSteps == 1      \* tool-calling steps of one loop where submissions overlap
MaxStored == 2         \* messages a conversation holds before the session starts

\* ----------------------------------------------------- program constants
StreamMaxSteps == 20   \* streamText({ maxSteps: 20 })
HookMaxSteps == 20     \* useChat({ maxSteps: 20 })
QueryRetry == 1        \* useQuery({ retry: 1 })

\* ------------------------------------------------------------ value sets
RouteIds == {"Y"}                  \* ids a route can supply
NanoIds == <<"X1", "X2", "X3">>    \* the ids nanoid() returns, in order
Ids == RouteIds \cup {NanoIds[i] : i \in 1..Len(NanoIds)}
Servers == {"s1"}                  \* mcpServersForApi: the configured tool servers
Inputs == {<<>>, <<" ">>, <<"h">>, <<" ", "h">>}  \* composer contents at a submit
Roles == {"user", "assistant"}
Reqs == 1..MaxReq

VARIABLES
  chatId,           \* params?.id, "" when the route has none
  generatedChatId,  \* useState("")
  chatIdDep,        \* the chatId the generated-id effect last ran with
  gens,             \* how many ids nanoid() has returned
  userId,           \* useState("")
  status,           \* the hook's status
  abortRef,         \* the request whose controller stop() aborts, 0 when none
  pushed,           \* the route router.push asked for, "" when none is pending
  toasts,           \* toast.error calls of the hook's onError
  invalidations,    \* queryClient.invalidateQueries calls
  reqs,             \* the requests issued through customFetch
  nreq,             \* how many were issued
  store,            \* the conversation store behind the endpoints
  query,            \* the history query: state, failures, data
  histToasts,       \* toast.error calls of the history error effect
  histLogs          \* console.error calls of the history error effect

sessionVars == <<chatId, generatedChatId, chatIdDep, gens, userId, status,
                 abortRef, pushed, toasts, invalidations>>
requestVars == <<reqs, nreq, store>>
queryVars == <<query, histToasts, histLogs>>
vars == <<chatId, generatedChatId, chatIdDep, gens, userId, status, abortRef,
          pushed, toasts, invalidations, reqs, nreq, store, query, histToasts,
          histLogs>>

\* ------------------------------------------------------------- helpers
RECURSIVE SeqsUpTo(_, _)
SeqsUpTo(S, n) ==
  IF n = 0 THEN {<<>>}
  ELSE LET shorter == SeqsUpTo(S, n - 1)
       IN shorter \cup {Append(s, c) : s \in {t \in shorter : Len(t) = n - 1}, c \in S}

\* String.prototype.trim on the composer input
RECURSIVE TrimLeft(_)
TrimLeft(s) == IF s # <<>> /\ Head(s) = " " THEN TrimLeft(Tail(s)) ELSE s

RECURSIVE TrimRight(_)
TrimRight(s) ==
  IF s # <<>> /\ s[Len(s)] = " " THEN TrimRight(SubSeq(s, 1, Len(s) - 1)) ELSE s

Trim(s) == TrimRight(TrimLeft(s))

\* chatId || generatedChatId
EffectiveChatId == IF chatId # "" THEN chatId ELSE generatedChatId

NoReq ==
  [st |-> "none", chatId |-> "", base |-> 0, steps |-> 0, lastTool |-> FALSE,
   opened |-> {}, cleanups |-> 0, finishes |-> 0, posts |-> 0,
   post |-> "none", saveLogs |-> 0, logged |-> 0, signal |-> FALSE,
   toolsOf |-> 0, error |-> "none", toast |-> "none"]

Req(r) == reqs[r]

\* ------------------------------------------------------- mount effects
\* useEffect(() => { setUserId(getUserId()) }, [])
UserIdEffect ==
  /\ userId = ""
  /\ userId' = "u1"
  /\ UNCHANGED <<chatId, generatedChatId, chatIdDep, gens, status, abortRef,
                 pushed, toasts, invalidations>>
  /\ UNCHANGED requestVars
  /\ UNCHANGED queryVars

\* the effect without its dependency list: it runs after every render
ChatIdEffectEveryRender == TRUE

\* the dependency list [chatId]: the effect runs on mount and when chatId changed
ChatIdEffectDue == chatIdDep # chatId

\* the test of the effect inverted: an id is generated for routed sessions only
NeedsGeneratedIdInverted == chatId # ""

\* if (!chatId)
NeedsGeneratedId == chatId = ""

\* useEffect(() => { if (!chatId) setGeneratedChatId(nanoid()) }, [chatId])
ChatIdEffect ==
  /\ ChatIdEffectDue
  /\ chatIdDep' = chatId
  /\ IF NeedsGeneratedId
       THEN /\ gens < Len(NanoIds)
            /\ gens' = gens + 1
            /\ generatedChatId' = NanoIds[gens + 1]
       ELSE UNCHANGED <<gens, generatedChatId>>
  /\ UNCHANGED <<chatId, userId, status, abortRef, pushed, toasts, invalidations>>
  /\ UNCHANGED requestVars
  /\ UNCHANGED queryVars

\* React runs the effects of a committed render before it handles the next event
EffectsSettled == userId # "" /\ chatIdDep = chatId

\* ----------------------------------------------------------- composer
\* customFetch up to its first await: the body's chatId is read, the
\* connections are being opened
NewRequest(id, base) ==
  [NoReq EXCEPT !.st = "connecting", !.chatId = id, !.base = base]

\* the branch of handleFormSubmit that also navigates
IsNewConversation(input) ==
  chatId = "" /\ generatedChatId # "" /\ Trim(input) # <<>>

\* handleFormSubmit with `input` in the composer: handleSubmit(e) in both
\* branches, router.push in the first.  handleSubmit sends nothing when the
\* input is empty, and clears the composer when it sends.
HandleFormSubmit(input) ==
  /\ EffectsSettled
  /\ input # <<>>
  /\ nreq < MaxReq
  /\ nreq' = nreq + 1
  /\ reqs' = [reqs EXCEPT ![nreq + 1] = NewRequest(EffectiveChatId, 0)]
  /\ status' = "submitted"
  /\ abortRef' = nreq + 1
  /\ pushed' = IF IsNewConversation(input) THEN generatedChatId ELSE pushed
  /\ UNCHANGED <<chatId, generatedChatId, chatIdDep, gens, userId, toasts,
                 invalidations, store>>
  /\ UNCHANGED queryVars

\* the route change asked for by router.push takes effect: params.id is the id
RouteChange ==
  /\ pushed # ""
  /\ chatId' = pushed
  /\ pushed' = ""
  /\ UNCHANGED <<generatedChatId, chatIdDep, gens, userId, status, abortRef,
                 toasts, invalidations>>
  /\ UNCHANGED requestVars
  /\ UNCHANGED queryVars

\* ------------------------------------------------- persistence endpoint
\* A stored message of the conversation store
StoredMessage(id, role) == [chatId |-> id, role |-> role]

\* convertToDBMessages(messages, chatId): one record per turn of a list of
\* turns; anything that is not a list of turns makes it throw
CanConvert(messages) == messages.type = "array"

ConvertToDBMessages(messages, id) ==
  [i \in 1..Len(messages.items) |-> StoredMessage(id, messages.items[i].role)]

\* the handler with its return after the try block: the exception is caught
\* and logged, and the success response is given all the same
POSTReturnAfterTry(body, saveOk) ==
  IF CanConvert(body.messages) /\ saveOk
    THEN [status |-> 200, success |-> TRUE, logged |-> FALSE,
          store |-> [store EXCEPT ![body.chatId] =
                       @ \o ConvertToDBMessages(body.messages, body.chatId)]]
    ELSE [status |-> 200, success |-> TRUE, logged |-> TRUE, store |-> store]

\* POST of route.ts: { success: true } only when conversion and saveMessages
\* both completed; any exception is caught, logged with console.error and
\* answered with { error } and status 500
POST(body, saveOk) ==
  IF CanConvert(body.messages) /\ saveOk
    THEN [status |-> 200, success |-> TRUE, logged |-> FALSE,
          store |-> [store EXCEPT ![body.chatId] =
                       @ \o ConvertToDBMessages(body.messages, body.chatId)]]
    ELSE [status |-> 500, success |-> FALSE, logged |-> TRUE, store |-> store]

\* ------------------------------------------------------------ customFetch
\* the value streamText hands to onFinish (the parameter the code names
\* `messages`): the finish event of the stream, an object
FinishEvent(q) == [type |-> "object", steps |-> q.steps, text |-> ~q.lastTool]

\* JSON.stringify({ messages, chatId: m.chatId })
PostBody(q) == [messages |-> FinishEvent(q), chatId |-> q.chatId]

\* the tool connections initializeMCPClients can return: every descriptor
\* either connects or is dropped
OpenedSets == SUBSET Servers

\* cleanup(): one release of the request's connections
Cleanup(q) == [q EXCEPT !.cleanups = @ + 1]

\* const { tools, cleanup } = await initializeMCPClients(m.mcpServers, signal)
\* followed by streamText(...) and return result.toDataStreamResponse()
InitializeMCPClients(r) ==
  /\ Req(r).st = "connecting"
  /\ \E S \in OpenedSets :
       reqs' = [reqs EXCEPT ![r] = [@ EXCEPT !.st = "streaming", !.opened = S]]
  /\ UNCHANGED <<nreq, store>>
  /\ UNCHANGED sessionVars
  /\ UNCHANGED queryVars

\* the loop without its ceiling
LoopContinuesUnbounded(q, tool) == tool

\* the loop of streamText goes on after a step that called tools, up to maxSteps
LoopContinues(q, tool) == tool /\ q.steps + 1 < StreamMaxSteps

\* the save registered per step (onStepFinish) instead of once (onFinish)
OnFinishPerStep(q) ==
  [q EXCEPT !.st = "saving", !.finishes = @ + q.steps, !.posts = @ + q.steps,
            !.post = "pending"]

\* onFinish up to its await: the POST of the turn is issued
OnFinishStart(q) ==
  [q EXCEPT !.st = "saving", !.finishes = @ + 1, !.posts = @ + 1,
            !.post = "pending"]

\* one pool of connections for the session, opened by its first request
ToolOwnerShared(r) == 1

\* the request whose connections the tools of request r call: `tools` is the
\* value its own initializeMCPClients returned
ToolOwner(r) == r

\* one step of the model inside streamText: it calls tools, which needs a
\* connection that offers some, or answers with text; when the loop ends,
\* streamText calls onFinish
ModelStep(r, tool) ==
  /\ Req(r).st = "streaming"
  /\ tool => Req(r).opened # {}
  /\ LET q == [Req(r) EXCEPT !.steps = @ + 1, !.lastTool = tool,
                             !.toolsOf = IF tool THEN ToolOwner(r) ELSE @]
     IN reqs' = [reqs EXCEPT ![r] =
                   IF LoopContinues(Req(r), tool) THEN q ELSE OnFinishStart(q)]
  /\ status' = "streaming"
  /\ UNCHANGED <<chatId, generatedChatId, chatIdDep, gens, userId, abortRef,
                 pushed, toasts, invalidations, nreq, store>>
  /\ UNCHANGED queryVars

\* a step where submissions overlap: the model calls tools MaxToolSteps times
BoundedModelStep(r, tool) ==
  /\ tool => Req(r).steps < MaxToolSteps
  /\ ModelStep(r, tool)

\* what `await fetch("/api/chat/messages", ...)` gives onFinish: the response
\* of the endpoint when the POST arrives (sent), a rejection when it does not
Fetched(q, sent, saveOk) ==
  IF sent
    THEN [threw |-> FALSE, res |-> POST(PostBody(q), saveOk)]
    ELSE [threw |-> TRUE,
          res |-> [status |-> 0, success |-> FALSE, logged |-> FALSE,
                   store |-> store]]

\* how the write attempt of onFinish came out
Outcome(f) ==
  IF f.threw THEN "threw" ELSE IF f.res.status = 200 THEN "ok" ELSE "failed"

\* the console.error entries a write attempt leaves: the one of onFinish's
\* catch when the fetch rejected, the one of the endpoint's catch otherwise
SaveLogs(f) == (IF f.threw THEN 1 ELSE 0) + (IF f.res.logged THEN 1 ELSE 0)

\* onFinish without its try/catch: a rejected fetch makes onFinish throw, and
\* the stream ends with that error
OnFinishEndNoCatch(q, f) ==
  IF f.threw
    THEN [q EXCEPT !.st = "failed", !.post = "threw"]
    ELSE [Cleanup(q) EXCEPT !.st = IF q.signal THEN "aborted" ELSE "finished",
                            !.post = Outcome(f), !.saveLogs = @ + SaveLogs(f)]

\* cleanup() as the last statement of the try block: a rejected fetch skips it
OnFinishEndCleanupInTry(q, f) ==
  [(IF f.threw THEN q ELSE Cleanup(q)) EXCEPT
     !.st = IF q.signal THEN "aborted" ELSE "finished",
     !.post = Outcome(f), !.saveLogs = @ + SaveLogs(f)]

\* the rest of onFinish: the awaited fetch resolves (whatever its status) or
\* rejects and is caught and logged; then cleanup()
OnFinishEnd(q, f) ==
  [Cleanup(q) EXCEPT !.st = IF q.signal THEN "aborted" ELSE "finished",
                     !.post = Outcome(f), !.saveLogs = @ + SaveLogs(f)]

\* the POST reaches the endpoint (sent) or fails on the way; onFinish goes on
PostResolves(r, sent, saveOk) ==
  /\ Req(r).st = "saving"
  /\ LET f == Fetched(Req(r), sent, saveOk)
     IN /\ store' = f.res.store
        /\ reqs' = [reqs EXCEPT ![r] = OnFinishEnd(@, f)]
  /\ UNCHANGED nreq
  /\ UNCHANGED sessionVars
  /\ UNCHANGED queryVars

\* onError of streamText: console.error only
OnError(q) == [q EXCEPT !.st = "failed", !.logged = @ + 1]

\* a model or transport error during a step ends the loop through onError
StepError(r) ==
  /\ Req(r).st = "streaming"
  /\ reqs' = [reqs EXCEPT ![r] = OnError(@)]
  /\ UNCHANGED <<nreq, store>>
  /\ UNCHANGED sessionVars
  /\ UNCHANGED queryVars

\* ------------------------------------------------------- the hook (useChat)
\* the hook continues by itself when the last step of the assistant message
\* holds tool results and the message's step number is below its maxSteps
ShouldResubmit(q) ==
  /\ HookMaxSteps > 1
  /\ q.lastTool
  /\ q.base + q.steps - 1 < HookMaxSteps

\* onFinish of useChat without its call
OnFinishNoInvalidate == invalidations

\* onFinish of useChat: if (userId) queryClient.invalidateQueries(...)
OnFinishInvalidate == IF userId # "" THEN invalidations + 1 ELSE invalidations

\* the stream closed as soon as the loop ended, without waiting for onFinish
StreamEndedBeforeOnFinish(q) == q.st \in {"saving", "finished"}

\* the stream of a request closes after onFinish of streamText returned
StreamEnded(q) == q.st = "finished"

\* the end of the stream reaches the hook: onFinish runs, the status is
\* ready again, and the hook may continue with a request of its own
StreamEnd(r) ==
  /\ StreamEnded(Req(r))
  /\ invalidations' = OnFinishInvalidate
  /\ IF ShouldResubmit(Req(r)) /\ nreq < MaxReq
       THEN /\ nreq' = nreq + 1
            /\ reqs' = [reqs EXCEPT
                 ![r] = [@ EXCEPT !.st = "closedOk"],
                 ![nreq + 1] = NewRequest(EffectiveChatId, Req(r).base + Req(r).steps)]
            /\ status' = "submitted"
            /\ abortRef' = nreq + 1
       ELSE /\ nreq' = nreq
            /\ reqs' = [reqs EXCEPT ![r] = [@ EXCEPT !.st = "closedOk"]]
            /\ status' = "ready"
            /\ abortRef' = 0
  /\ UNCHANGED <<chatId, generatedChatId, chatIdDep, gens, userId, pushed,
                 toasts, store>>
  /\ UNCHANGED queryVars

\* the hook left in the status it had when the error arrived
StatusKeptOnError == status

\* the status the hook is left in after its onError ran
StatusAfterError == "error"

\* the messages an error can carry
ErrorMessages == {"", "Failed to fetch"}
Fallback == "An error occured, please try again later."

\* the toast without its fallback
ToastTextNoFallback(message) == message

\* error.message.length > 0 ? error.message : "An error occured, ..."
ToastText(message) == IF message # "" THEN message ELSE Fallback

\* the error event of the stream reaches the hook: onError shows one toast
ClientError(r, message) ==
  /\ Req(r).st = "failed"
  /\ reqs' = [reqs EXCEPT ![r] = [@ EXCEPT !.st = "closedErr",
                                           !.error = message,
                                           !.toast = ToastText(message)]]
  /\ toasts' = toasts + 1
  /\ status' = StatusAfterError
  /\ UNCHANGED <<chatId, generatedChatId, chatIdDep, gens, userId, abortRef,
                 pushed, invalidations, nreq, store>>
  /\ UNCHANGED queryVars

\* the abort taken for a failure of the stream
AbortedAsError(q) ==
  [q EXCEPT !.signal = TRUE,
            !.st = IF q.st = "saving" THEN "saving" ELSE "failed"]

\* what the abort signal does to a request: while connecting or streaming
\* the request ends without any callback of streamText; a request already in
\* onFinish goes on to its cleanup
Aborted(q) ==
  [q EXCEPT !.signal = TRUE,
            !.st = IF q.st = "saving" THEN "saving" ELSE "aborted"]

\* stop() of the hook: aborts the controller of the request it refers to
Stop ==
  /\ EffectsSettled
  /\ abortRef # 0
  /\ Req(abortRef).st \in {"connecting", "streaming", "saving"}
  /\ reqs' = [reqs EXCEPT ![abortRef] = Aborted(@)]
  /\ abortRef' = 0
  /\ status' = "ready"
  /\ UNCHANGED <<chatId, generatedChatId, chatIdDep, gens, userId, pushed,
                 toasts, invalidations, nreq, store>>
  /\ UNCHANGED queryVars

\* ------------------------------------------------------- history query
\* the responses GET /api/chats/:id can give: the stored conversation, not
\* found, or another failure
Statuses == {200, 404, 403, 500}
ResponseOk(resp) == resp.status >= 200 /\ resp.status <= 299
Responses(id) ==
  {[status |-> 200, messages |-> store[id]]}
    \cup {[status |-> c, messages |-> <<>>] : c \in Statuses \ {200}}

\* enabled: !!chatId && !!userId
QueryEnabled == chatId # "" /\ userId # ""

\* queryFn without its 404 branch: every non-success response throws
QueryFnNo404(id, resp) ==
  IF ~ResponseOk(resp)
    THEN [threw |-> TRUE, data |-> [id |-> "", messages |-> <<>>]]
    ELSE [threw |-> FALSE, data |-> [id |-> id, messages |-> resp.messages]]

\* queryFn after the fetch: the payload it returns, or that it throws
QueryFn(id, resp) ==
  IF ~ResponseOk(resp)
    THEN IF resp.status = 404
           THEN [threw |-> FALSE, data |-> [id |-> id, messages |-> <<>>]]
           ELSE [threw |-> TRUE, data |-> [id |-> "", messages |-> <<>>]]
    ELSE [threw |-> FALSE, data |-> [id |-> id, messages |-> resp.messages]]

NoData == [id |-> "", messages |-> <<>>]
NoQuery ==
  [state |-> "idle", key |-> <<"", "">>, failures |-> 0, last |-> 0,
   data |-> NoData, notified |-> FALSE]

\* the query starts fetching for its key [chatId, userId] once it is enabled
QueryFetch ==
  /\ QueryEnabled
  /\ query.state = "idle" \/ query.key # <<chatId, userId>>
  /\ query' = [NoQuery EXCEPT !.state = "loading", !.key = <<chatId, userId>>]
  /\ UNCHANGED <<histToasts, histLogs>>
  /\ UNCHANGED sessionVars
  /\ UNCHANGED requestVars

\* the query after queryFn ran on a response: it holds the data, or queryFn
\* threw and the query retries QueryRetry times before it holds the error
QueryAfter(resp) ==
  LET out == QueryFn(query.key[1], resp)
  IN IF ~out.threw
       THEN [query EXCEPT !.state = "success", !.data = out.data,
                          !.last = resp.status]
     ELSE IF query.failures < QueryRetry
       THEN [query EXCEPT !.failures = @ + 1, !.last = resp.status]
     ELSE [query EXCEPT !.state = "error", !.last = resp.status]

\* a response to the fetch of queryFn arrives
QueryResponse ==
  /\ query.state = "loading"
  /\ \E resp \in Responses(query.key[1]) : query' = QueryAfter(resp)
  /\ UNCHANGED <<histToasts, histLogs>>
  /\ UNCHANGED sessionVars
  /\ UNCHANGED requestVars

\* useEffect(() => { if (error) { console.error(...); toast.error(...) } }, [error])
HistoryErrorEffect ==
  /\ query.state = "error"
  /\ ~query.notified
  /\ query' = [query EXCEPT !.notified = TRUE]
  /\ histLogs' = histLogs + 1
  /\ histToasts' = histToasts + 1
  /\ UNCHANGED sessionVars
  /\ UNCHANGED requestVars

\* convertToUIMessages and the map over its result: one UI message per
\* stored message, in order
ConvertToUIMessages(messages) ==
  [i \in 1..Len(messages) |-> [role |-> messages[i].role]]

\* chatData of the component: undefined until the query succeeded
HasChatData == query.state = "success"

\* the initialMessages memo
InitialMessages ==
  IF ~HasChatData \/ Len(query.data.messages) = 0
    THEN <<>>
    ELSE ConvertToUIMessages(query.data.messages)

\* status === "streaming" || status === "submitted" || isLoadingChat
isLoadingChat == query.state = "loading"
isLoading == status = "streaming" \/ status = "submitted" \/ isLoadingChat

\* ------------------------------------------------------------ behaviours
InitSession ==
  /\ chatId \in {""} \cup RouteIds
  /\ generatedChatId = ""
  /\ chatIdDep = "unrun"
  /\ gens = 0
  /\ userId = ""
  /\ status = "ready"
  /\ abortRef = 0
  /\ pushed = ""
  /\ toasts = 0
  /\ invalidations = 0
  /\ reqs = [r \in Reqs |-> NoReq]
  /\ nreq = 0
  /\ query = NoQuery
  /\ histToasts = 0
  /\ histLogs = 0

\* a session over conversations that hold nothing yet
Init ==
  /\ InitSession
  /\ store = [id \in Ids |-> <<>>]

\* several submissions that may overlap
Next ==
  \/ UserIdEffect
  \/ ChatIdEffect
  \/ \E input \in Inputs : HandleFormSubmit(input)
  \/ RouteChange
  \/ \E r \in Reqs : InitializeMCPClients(r)
  \/ \E r \in Reqs, tool \in BOOLEAN : BoundedModelStep(r, tool)
  \/ \E r \in Reqs, sent \in BOOLEAN, saveOk \in BOOLEAN : PostResolves(r, sent, saveOk)
  \/ \E r \in Reqs : StepError(r)
  \/ \E r \in Reqs : StreamEnd(r)
  \/ \E r \in Reqs, message \in ErrorMessages : ClientError(r, message)
  \/ Stop

Spec == Init /\ [][Next]_vars

\* one submission of the user, with a model free to call tools at every step
FirstSubmit(input) == nreq = 0 /\ HandleFormSubmit(input)

NextLoop ==
  \/ UserIdEffect
  \/ ChatIdEffect
  \/ \E input \in Inputs : FirstSubmit(input)
  \/ RouteChange
  \/ \E r \in Reqs : InitializeMCPClients(r)
  \/ \E r \in Reqs, tool \in BOOLEAN : ModelStep(r, tool)
  \/ \E r \in Reqs, sent \in BOOLEAN, saveOk \in BOOLEAN : PostResolves(r, sent, saveOk)
  \/ \E r \in Reqs : StepError(r)
  \/ \E r \in Reqs : StreamEnd(r)
  \/ \E r \in Reqs, message \in ErrorMessages : ClientError(r, message)
  \/ Stop

SpecLoop == Init /\ [][NextLoop]_vars

\* a session mounted on a route whose conversation may hold messages
StoredHistories(id) ==
  {[i \in 1..Len(rs) |-> StoredMessage(id, rs[i])] : rs \in SeqsUpTo(Roles, MaxStored)}

InitHistory ==
  /\ InitSession
  /\ \E h \in StoredHistories(chatId) :
       store = [id \in Ids |-> IF id = chatId THEN h ELSE <<>>]

NextHistory ==
  \/ UserIdEffect
  \/ ChatIdEffect
  \/ QueryFetch
  \/ QueryResponse
  \/ HistoryErrorEffect

SpecHistory == InitHistory /\ [][NextHistory]_vars

\* the write endpoint called directly, with any payload a client can post
Turns == {[role |-> x] : x \in Roles}
Payloads ==
  {[type |-> "array", items |-> ms] : ms \in SeqsUpTo(Turns, MaxStored)}
    \cup {[type |-> "object", steps |-> 1, text |-> b] : b \in BOOLEAN}
Bodies == {[messages |-> m, chatId |-> id] : m \in Payloads, id \in Ids}

\* one call of POST /api/chat/messages; saveOk is whether saveMessages completes
EndpointPost(body, saveOk) ==
  /\ store' = POST(body, saveOk).store
  /\ Len(store'[body.chatId]) <= MaxStored
  /\ UNCHANGED <<reqs, nreq>>
  /\ UNCHANGED sessionVars
  /\ UNCHANGED queryVars

NextEndpoint == \E body \in Bodies, saveOk \in BOOLEAN : EndpointPost(body, saveOk)

SpecEndpoint == Init /\ [][NextEndpoint]_vars

\* ================================================================ claims
Sent(r) == Req(r).st # "none"
Generated(id) == \E i \in 1..Len(NanoIds) : NanoIds[i] = id
RolesOf(ms) == [i \in 1..Len(ms) |-> ms[i].role]
\* no request is in flight and no callback is pending
Quiescent == \A r \in Reqs : Req(r).st \in {"none", "closedOk", "closedErr", "aborted"}

\* C1: a request that opened tool connections and was cancelled while its
\* stream was in progress has had its cleanup invoked exactly once.
C1_CancelReleasesOnce ==
  \A r \in Reqs :
    (Req(r).st = "aborted" /\ Req(r).opened # {}) => Req(r).cleanups = 1

\* C2: a request that opened tool connections and ended through onError
\* (a model or transport error during a step) has had its cleanup invoked
\* exactly once.
C2_ErrorReleasesOnce ==
  \A r \in Reqs :
    (Req(r).st \in {"failed", "closedErr"} /\ Req(r).opened # {})
      => Req(r).cleanups = 1

\* C3: onFinish of streamText runs at most once per request, and exactly
\* once for a request whose stream completed, however many steps it took.
C3_FinalizeOnce ==
  \A r \in Reqs :
    /\ Req(r).finishes <= 1
    /\ Req(r).st \in {"saving", "finished", "closedOk"} => Req(r).finishes = 1

C3_Witness ==
  \E r \in Reqs :
    Req(r).st = "closedOk" /\ Req(r).steps = StreamMaxSteps /\ Req(r).finishes = 1

\* C4: the payload onFinish posts for the first turn of a conversation
\* without stored history is one the write endpoint accepts, and after the
\* write the store holds that user turn and that assistant turn.
C4_TurnStored ==
  \A r \in Reqs :
    (Req(r).st = "saving" /\ store[Req(r).chatId] = <<>>)
      => LET res == POST(PostBody(Req(r)), TRUE)
         IN /\ res.status = 200
            /\ RolesOf(res.store[Req(r).chatId]) = <<"user", "assistant">>

\* C5: a request cancelled or failed after assistant content was produced
\* (at least one step ran) has had a persistence write attempted.
C5_PartialPersisted ==
  \A r \in Reqs :
    (Req(r).st \in {"aborted", "failed", "closedErr"} /\ Req(r).steps > 0)
      => Req(r).posts >= 1

\* C6: two requests of the session never stream at the same time.
C6_OneInFlight ==
  \A r1 \in Reqs, r2 \in Reqs :
    (Req(r1).st = "streaming" /\ Req(r2).st = "streaming") => r1 = r2

C8_IdKept ==
  \A r \in Reqs :
    Sent(r) => Req(r).chatId = Req(1).chatId /\ EffectiveChatId = Req(1).chatId

Resolved(q) == q.post \in {"ok", "failed", "threw"}

\* C11: the end of the stream reaches the hook, whose onFinish invalidates the
\* conversation list, only after the write attempt of onFinish of streamText
\* resolved: a request the hook saw complete has posted once and its attempt
\* has resolved, and no invalidation precedes the first resolved attempt.
C11_SaveBeforeStreamEnd ==
  /\ \A r \in Reqs :
       Req(r).st = "closedOk" => Req(r).posts = 1 /\ Resolved(Req(r))
  /\ invalidations <= Cardinality({r \in Reqs : Resolved(Req(r))})

C11_Witness ==
  \E r \in Reqs :
    Req(r).st = "closedOk" /\ Req(r).post = "failed" /\ invalidations = 1

\* C12: a write attempt that failed (the fetch rejected, or the endpoint
\* answered 500) is logged once and not surfaced: the request does not end in
\* error, the step that resolves it shows no toast and changes neither the
\* status nor what the request produced, and every toast shown belongs to a
\* request that ended through the error path.
C12_SaveFailureOnlyLogged ==
  /\ [](\A r \in Reqs :
         Req(r).post \in {"failed", "threw"} =>
           /\ Req(r).saveLogs = 1
           /\ Req(r).st \in {"finished", "closedOk", "aborted"})
  /\ [](toasts = Cardinality({r \in Reqs : Req(r).st = "closedErr"}))
  /\ [][\A r \in Reqs :
          (Req(r).post = "pending" /\ reqs'[r].post \in {"failed", "threw"})
            => /\ toasts' = toasts
               /\ status' = status
               /\ reqs'[r].steps = Req(r).steps]_vars

C12_Witness ==
  \E r \in Reqs :
    /\ Req(r).st = "closedOk" /\ Req(r).post = "threw" /\ Req(r).saveLogs = 1
    /\ toasts = 0 /\ status = "ready"

\* C13: for every payload and either outcome of saveMessages, the endpoint
\* answers { success: true } with status 200 exactly when the conversion and
\* the storage write both completed, and the store then holds the converted
\* turns; otherwise it logs, answers status 500 and leaves the store as it was.
C13_SuccessOnlyAfterWrite ==
  \A body \in Bodies, saveOk \in BOOLEAN :
    LET res == POST(body, saveOk)
    IN /\ res.success <=> (CanConvert(body.messages) /\ saveOk)
       /\ res.success =>
            /\ res.status = 200 /\ ~res.logged
            /\ res.store[body.chatId] =
                 store[body.chatId] \o ConvertToDBMessages(body.messages, body.chatId)
       /\ ~res.success =>
            res.status = 500 /\ res.logged /\ res.store = store

C13_Witness ==
  \E id \in Ids : RolesOf(store[id]) = <<"user", "assistant">>

\* the steps whose output request r delivered to the session's messages
Delivered(r) == Req(r).steps

\* C14: a stop ends the loop of the request it aborts and is no error: the
\* aborted request runs no further step, so what it delivered stays as it
\* was, it never comes to the error path and gets no toast; the stop itself
\* shows no toast, leaves the status ready and removes nothing delivered.
C14_CancelIsNoError ==
  /\ [](\A r \in Reqs :
         Req(r).signal =>
           /\ Req(r).st \in {"saving", "aborted"}
           /\ Req(r).toast = "none")
  /\ [][\A r \in Reqs :
          Req(r).signal => Delivered(r)' = Delivered(r)]_vars
  /\ [][(\E r \in Reqs : ~Req(r).signal /\ reqs'[r].signal)
          => /\ toasts' = toasts
             /\ status' = "ready"
             /\ \A r \in Reqs : Delivered(r)' = Delivered(r)]_vars

C14_Witness ==
  \E r \in Reqs :
    /\ Req(r).st = "aborted" /\ Req(r).signal /\ Delivered(r) >= 1
    /\ Req(r).finishes = 0
    /\ status = "ready" /\ toasts = 0

\* C15: every request whose error reached the hook has exactly one toast,
\* whose text is the message of the error when that is not empty and the
\* fallback text when it is; no other request has a toast.
C15_OneToastPerError ==
  /\ \A r \in Reqs :
       /\ Req(r).st = "closedErr" =>
            /\ Req(r).error \in ErrorMessages
            /\ Req(r).toast = (IF Req(r).error = "" THEN Fallback ELSE Req(r).error)
       /\ Req(r).st # "closedErr" => Req(r).toast = "none"
  /\ toasts = Cardinality({r \in Reqs : Req(r).toast # "none"})

C15_Witness ==
  \E r1 \in Reqs, r2 \in Reqs :
    /\ Req(r1).error = "" /\ Req(r1).toast = Fallback
    /\ Req(r2).error = "Failed to fetch" /\ Req(r2).toast = "Failed to fetch"
    /\ toasts = 2

\* C16: in an unrouted session whose effects have run a generated id is
\* there, so every request sent carries a non-empty conversation id; and
\* nothing navigates before the first submit: while no request was sent no
\* push is pending and the route is not a generated id.
C16_IdBeforeSubmit ==
  /\ (chatId = "" /\ EffectsSettled) => generatedChatId # ""
  /\ \A r \in Reqs : Sent(r) => Req(r).chatId # ""
  /\ nreq = 0 => pushed = "" /\ ~Generated(chatId)

C16_Witness ==
  /\ chatId = "" /\ Sent(1)
  /\ Generated(Req(1).chatId) /\ pushed = Req(1).chatId

\* C18: with a user id set, the conversation list has been invalidated once
\* for each request the hook saw complete, and never without a user id; the
\* step that invalidates does so once, shows no toast and leaves the status
\* ready or, when the hook continues, submitted.
C18_InvalidateOncePerCompletion ==
  /\ [](invalidations =
          (IF userId = "" THEN 0
           ELSE Cardinality({r \in Reqs : Req(r).st = "closedOk"})))
  /\ [][invalidations' # invalidations
          => /\ invalidations' = invalidations + 1
             /\ userId # ""
             /\ toasts' = toasts
             /\ status' \in {"ready", "submitted"}]_vars

C18_Witness ==
  /\ userId # "" /\ invalidations = 2
  /\ Req(1).st = "closedOk" /\ Req(2).st = "closedOk"

\* C19: on the path through onFinish, cleanup has not run while the write
\* attempt is pending, and has run exactly once when the attempt resolved,
\* whether the endpoint answered success, answered a failure, or the fetch
\* rejected.
C19_CleanupAfterWriteAttempt ==
  \A r \in Reqs :
    /\ Req(r).post = "pending" => Req(r).cleanups = 0
    /\ Resolved(Req(r)) => Req(r).cleanups = 1
    /\ Req(r).cleanups >= 1 => Resolved(Req(r))

C19_Witness ==
  \E r \in Reqs :
    Req(r).post = "threw" /\ Req(r).cleanups = 1 /\ Req(r).opened # {}

\* C20: a step of a request calls the tools of that request's own
\* connections only, and no step runs once the request's cleanup has run:
\* after cleanup the loop of the request is over.
C20_ToolsOwnAndOpen ==
  /\ [](\A r \in Reqs :
         /\ Req(r).toolsOf \in {0, r}
         /\ Req(r).cleanups >= 1 => Req(r).st \in {"finished", "closedOk", "aborted"})
  /\ [][\A r \in Reqs :
          reqs'[r].steps > Req(r).steps
            => /\ Req(r).cleanups = 0
               /\ reqs'[r].toolsOf # 0 => Req(reqs'[r].toolsOf).cleanups = 0]_vars

C20_Witness ==
  /\ Req(1).toolsOf = 1 /\ Req(1).cleanups = 1
  /\ Req(2).toolsOf = 2 /\ Req(2).st = "streaming"
====
